---- MODULE Spec2Model ----
(***************************************************************************)
(* Retrieval and ranking subsystem of rag_etl: the VectorStore lifecycle   *)
(* (load-or-create, add_documents, save), similarity_search,               *)
(* weighted_search, QueryService.process_query and the request handlers    *)
(* of server.py that share one VectorStore.                                *)
(*                                                                         *)
(* Numbers are scaled: a similarity score s is modelled as 10*s and a      *)
(* weight w as 10*w, so a weighted score is 100*(s*w).                     *)
(***************************************************************************)
EXTENDS Integers, Sequences, FiniteSets, TLC

VARIABLES
    index,        \* self.index: the sequence of normalized vectors (ntotal = Len)
    documents,    \* self.documents
    disk_index,   \* the file <index_path>.index
    disk_docs,    \* the file <index_path>.docs
    boot,         \* "up" once VectorStore.__init__ returned, "fatal" when it raised
    pc,           \* per handler thread: the statement it is about to execute
    batch,        \* per handler thread: the chunks argument of add_documents
    dirs,         \* build_index: the source directories still to process
    last,         \* what the operation that completed last returned or raised
    saved,        \* history: the two files as the last successful _save_index left them
    allOk         \* history: no add_documents call has raised or been interrupted

vars == <<index, documents, disk_index, disk_docs, boot, pc, batch, dirs, last,
          saved, allOk>>

-----------------------------------------------------------------------------
(* Bounds of the model *)

MaxDocs == 2      \* documents the store may hold
MaxK == 2         \* largest top_k of a request
MaxCited == 2     \* chunks handed to one _build_citations call

-----------------------------------------------------------------------------
(* Python helpers *)

Min(a, b) == IF a <= b THEN a ELSE b

Max(a, b) == IF a >= b THEN a ELSE b

\* seq[:n] for n >= 0
Take(seq, n) == SubSeq(seq, 1, Min(n, Len(seq)))

\* seq[i] for a Python index i (0-based, negative indices count from the end)
PyItem(seq, i) == IF i >= 0 THEN seq[i + 1] ELSE seq[Len(seq) + i + 1]

\* whether seq[i] raises IndexError
PyItemRaises(seq, i) == i >= Len(seq) \/ i < -Len(seq)

Digit == <<"0", "1", "2", "3", "4", "5", "6", "7", "8", "9">>

\* str(i) for 0 <= i <= 9
Str(i) == Digit[i + 1]

-----------------------------------------------------------------------------
(* transform_rules.py *)

\* The per-source configuration table handed to TransformRules
\* (config['data_sources']); "ats" and any other source are not configured.
SourceConfig ==
    [hr     |-> [classification |-> "CONFIDENTIAL", weight |-> 10, pii_mask |-> TRUE],
     github |-> [classification |-> "PUBLIC", weight |-> 5, pii_mask |-> FALSE]]

\* self.source_config.get(source_system, {}).get(key, default)
ConfigGet(source_system, key, default) ==
    IF source_system \in DOMAIN SourceConfig
    THEN SourceConfig[source_system][key]
    ELSE default

\* The paragraphs of the modelled corpus and what the four substitution
\* passes of _mask_pii make of each.
Paragraphs == {"py", "a@b.co"}

MaskPii(text) == IF text = "a@b.co" THEN "[EMAIL_MASKED]" ELSE text

\* apply_transform with pii_masked telling whether masking changed the content
ApplyTransformFlagsFoundPii(content, source_system, file_path) ==
    LET masked == IF ConfigGet(source_system, "pii_mask", FALSE)
                  THEN [i \in 1..Len(content) |-> MaskPii(content[i])]
                  ELSE content
    IN  [content  |-> masked,
         metadata |-> [source_system  |-> source_system,
                       classification |-> ConfigGet(source_system, "classification", "PUBLIC"),
                       weight         |-> ConfigGet(source_system, "weight", 10),
                       file_path      |-> file_path,
                       pii_masked     |-> masked # content]]

\* apply_transform on a content given as its sequence of paragraphs
ApplyTransform(content, source_system, file_path) ==
    [content  |-> IF ConfigGet(source_system, "pii_mask", FALSE)
                  THEN [i \in 1..Len(content) |-> MaskPii(content[i])]
                  ELSE content,
     metadata |-> [source_system  |-> source_system,
                   classification |-> ConfigGet(source_system, "classification", "PUBLIC"),
                   weight         |-> ConfigGet(source_system, "weight", 10),
                   file_path      |-> file_path,
                   pii_masked     |-> ConfigGet(source_system, "pii_mask", FALSE)]]

-----------------------------------------------------------------------------
(* multisource_etl.py: chunk construction *)

\* self.text_splitter.split_text: one chunk per paragraph
SplitText(content) == content

\* the loop "for i, chunk in enumerate(text_chunks)" with the given file path
MakeChunks(text_chunks, metadata, path) ==
    [i \in 1..Len(text_chunks) |->
        [content   |-> text_chunks[i],
         metadata  |-> [metadata EXCEPT !.file_path = path \o "#chunk_" \o Str(i - 1)],
         embedding |-> <<>>]]

\* the chunks process_uploaded_file hands to add_documents
UploadChunks(content, filename, source_system) ==
    LET t == ApplyTransform(content, source_system, filename)
    IN  MakeChunks(SplitText(t.content), t.metadata, filename)

\* the chunks _process_file returns for one file
FileChunks(content, file_path, source_system) ==
    LET t == ApplyTransform(content, source_system, file_path)
    IN  MakeChunks(SplitText(t.content), t.metadata, t.metadata.file_path)

\* _create_chunks_from_content
CreateChunksFromContent(content, source_system, file_path) ==
    LET t == ApplyTransform(content, source_system, file_path)
    IN  MakeChunks(SplitText(t.content), t.metadata, t.metadata.file_path)

\* what the GitHub client fetches: the profile text of a login with no repository
GithubProfile == [login |-> "dev", text |-> <<"py">>, repositories |-> <<>>]

\* _convert_github_profile_to_chunks
ConvertGithubProfileToChunks(profile_data) ==
    CreateChunksFromContent(profile_data.text, "github",
                            "profile_" \o profile_data.login)

-----------------------------------------------------------------------------
(* The embedding model and the flat inner-product index *)

\* A vector is <<direction, magnitude>>: direction in 0..7 (multiples of 45
\* degrees), magnitude 0 for the zero vector.
EmbedDir ==
    [t \in {"py", "a@b.co", "[EMAIL_MASKED]", "py?", "db?"} |->
        CASE t = "py" -> 0
          [] t = "a@b.co" -> 1
          [] t = "[EMAIL_MASKED]" -> 2
          [] t = "py?" -> 0
          [] t = "db?" -> 3]

\* self.embedding_model.encode(text).tolist()
Encode(text) == <<EmbedDir[text], 2>>

\* faiss.normalize_L2 on one row: a zero vector is left as it is
NormalizeL2(v) == IF v[2] = 0 THEN v ELSE <<v[1], 1>>

\* 10 * cos(45 degrees * d)
Cos10 == <<10, 7, 0, -7, -10, -7, 0, 7>>

\* inner product of two normalized vectors, times 10
InnerProduct(u, v) ==
    IF u[2] = 0 \/ v[2] = 0 THEN 0 ELSE Cos10[((u[1] - v[1]) % 8) + 1]

\* the score faiss reports for a missing neighbour (-FLT_MAX), with id -1
PadScore == -999

-----------------------------------------------------------------------------
(* vectorstore.py: searching *)

\* whether vector i of idx precedes vector j in the answer of index.search:
\* higher inner product first, the earlier vector first among equals
Precedes(idx, qv, i, j) ==
    \/ InnerProduct(qv, idx[i]) > InnerProduct(qv, idx[j])
    \/ InnerProduct(qv, idx[i]) = InnerProduct(qv, idx[j]) /\ i < j

\* self.index.search(query_embedding, k) for one query row: k pairs of
\* (score, id), ids 0-based, padded with (PadScore, -1) past ntotal
IndexSearch(idx, qv, k) ==
    LET n == Len(idx)
        AtRank(r) == CHOOSE i \in 1..n :
                        Cardinality({j \in 1..n : Precedes(idx, qv, j, i)}) = r - 1
    IN  [r \in 1..k |->
            IF r <= n
            THEN [score |-> InnerProduct(qv, idx[AtRank(r)]), idx |-> AtRank(r) - 1]
            ELSE [score |-> PadScore, idx |-> -1]]

\* line 67 without its score test
HitKeptAnyScore(docs, hit, threshold) == hit.idx < Len(docs)

\* the test of line 67
HitKept(docs, hit, threshold) == hit.score >= threshold /\ hit.idx < Len(docs)

\* the dictionary appended at lines 68-73
HitResult(docs, hit) ==
    [content  |-> PyItem(docs, hit.idx).content,
     metadata |-> PyItem(docs, hit.idx).metadata,
     score    |-> hit.score]

NoSearch == [raised |-> FALSE, results |-> <<>>, encoded |-> FALSE, searched |-> FALSE]

\* similarity_search without the early return of lines 56-57
SimilaritySearchNoEarlyReturn(idx, docs, query, k, threshold) ==
    IF k <= 0
    THEN [NoSearch EXCEPT !.raised = TRUE, !.encoded = TRUE]
    ELSE LET hits == IndexSearch(idx, NormalizeL2(Encode(query)), k)
             Kept(h) == HitKept(docs, h, threshold)
             kept == SelectSeq(hits, Kept)
         IN  IF \E i \in 1..Len(kept) : PyItemRaises(docs, kept[i].idx)
             THEN [NoSearch EXCEPT !.raised = TRUE, !.encoded = TRUE, !.searched = TRUE]
             ELSE [raised   |-> FALSE,
                   results  |-> [i \in 1..Len(kept) |-> HitResult(docs, kept[i])],
                   encoded  |-> TRUE,
                   searched |-> TRUE]

\* similarity_search: the returned list, whether the call raised, and whether
\* it called the embedding model and the index search
\* (index.search refuses k <= 0 with an assertion; documents[idx] raises
\* IndexError when a kept id is -1 and the documents list is empty).
SimilaritySearch(idx, docs, query, k, threshold) ==
    IF Len(idx) = 0 THEN NoSearch
    ELSE IF k <= 0
    THEN [NoSearch EXCEPT !.raised = TRUE, !.encoded = TRUE]
    ELSE LET hits == IndexSearch(idx, NormalizeL2(Encode(query)), k)
             Kept(h) == HitKept(docs, h, threshold)
             kept == SelectSeq(hits, Kept)
         IN  IF \E i \in 1..Len(kept) : PyItemRaises(docs, kept[i].idx)
             THEN [NoSearch EXCEPT !.raised = TRUE, !.encoded = TRUE, !.searched = TRUE]
             ELSE [raised   |-> FALSE,
                   results  |-> [i \in 1..Len(kept) |-> HitResult(docs, kept[i])],
                   encoded  |-> TRUE,
                   searched |-> TRUE]

\* lines 80-82: every candidate gets its weighted_score
WithWeightedScore(result) ==
    [content        |-> result.content,
     metadata       |-> result.metadata,
     score          |-> result.score,
     weighted_score |-> result.score * result.metadata.weight]

\* a descending sort that is not stable: an element goes before its equals
RECURSIVE SortedUnstable(_)
SortedUnstable(seq) ==
    IF seq = <<>> THEN <<>>
    ELSE LET n == Len(seq)
             x == seq[n]
             done == SortedUnstable(SubSeq(seq, 1, n - 1))
             before == Cardinality({i \in 1..Len(done) :
                                       done[i].weighted_score > x.weighted_score})
         IN  SubSeq(done, 1, before) \o <<x>> \o SubSeq(done, before + 1, Len(done))

\* sorted(seq, key=weighted_score, reverse=True): a stable sort, so an element
\* goes behind every element already placed whose key is not smaller
RECURSIVE SortedByWeightedScore(_)
SortedByWeightedScore(seq) ==
    IF seq = <<>> THEN <<>>
    ELSE LET n == Len(seq)
             x == seq[n]
             done == SortedByWeightedScore(SubSeq(seq, 1, n - 1))
             before == Cardinality({i \in 1..Len(done) :
                                       done[i].weighted_score >= x.weighted_score})
         IN  SubSeq(done, 1, before) \o <<x>> \o SubSeq(done, before + 1, Len(done))

\* weighted_search without the cut of line 85
WeightedSearchNoCut(idx, docs, query, k, threshold) ==
    LET raw == SimilaritySearch(idx, docs, query, k * 2, threshold)
        weighted == [i \in 1..Len(raw.results) |-> WithWeightedScore(raw.results[i])]
    IN  [raw EXCEPT !.results = SortedByWeightedScore(weighted)]

\* weighted_search
WeightedSearch(idx, docs, query, k, threshold) ==
    LET raw == SimilaritySearch(idx, docs, query, k * 2, threshold)
        weighted == [i \in 1..Len(raw.results) |-> WithWeightedScore(raw.results[i])]
    IN  [raw EXCEPT !.results = Take(SortedByWeightedScore(weighted), k)]

-----------------------------------------------------------------------------
(* query_service.py *)

NoAnswer == "I couldn't find relevant information to answer your query."

\* the part of the context one retrieved chunk contributes
ContextPart(doc) ==
    "[" \o doc.metadata.classification \o "] From "
        \o doc.metadata.source_system \o ": " \o doc.content

\* sep.join(parts)
RECURSIVE Join(_, _)
Join(parts, sep) ==
    IF parts = <<>> THEN ""
    ELSE IF Len(parts) = 1 THEN parts[1]
    ELSE parts[1] \o sep \o Join(Tail(parts), sep)

\* _build_context
BuildContext(docs) == Join([i \in 1..Len(docs) |-> ContextPart(docs[i])], "\n\n")

\* doc.get('weighted_score', doc.get('score', 0.0))
CitationScore(doc) ==
    IF "weighted_score" \in DOMAIN doc THEN doc.weighted_score
    ELSE IF "score" \in DOMAIN doc THEN doc.score
    ELSE 0

\* a Citation whose content is cut from 200 characters on
MakeCitationCutsAt200(doc) ==
    [content        |-> IF Len(doc.content) >= 200
                        THEN SubSeq(doc.content, 1, 199) \o "..."
                        ELSE doc.content,
     source_system  |-> doc.metadata.source_system,
     classification |-> doc.metadata.classification,
     file_path      |-> doc.metadata.file_path,
     score          |-> CitationScore(doc)]

\* the Citation built for one retrieved chunk
MakeCitation(doc) ==
    [content        |-> IF Len(doc.content) > 200
                        THEN SubSeq(doc.content, 1, 200) \o "..."
                        ELSE doc.content,
     source_system  |-> doc.metadata.source_system,
     classification |-> doc.metadata.classification,
     file_path      |-> doc.metadata.file_path,
     score          |-> CitationScore(doc)]

\* _build_citations
BuildCitations(docs) == [i \in 1..Len(docs) |-> MakeCitation(docs[i])]

\* what _generate_answer may return: the model's text, or the caught error
Answers == {"Python.", "Error generating response: timeout"}

\* process_query without the short-circuit of lines 41-46
ProcessQueryAlwaysGenerates(idx, docs, request, generated) ==
    LET found == WeightedSearch(idx, docs, request.query, request.top_k,
                                request.threshold)
        retrieved_docs == found.results
    IN  [raised |-> found.raised,
         encoded |-> found.encoded, searched |-> found.searched,
         retrieved |-> retrieved_docs, generate_calls |-> 1,
         context |-> BuildContext(retrieved_docs),
         response |-> [answer |-> generated,
                       citations |-> BuildCitations(retrieved_docs),
                       query |-> request.query]]

\* process_query on the store (idx, docs); generated is what _generate_answer
\* returns if it is called.  generate_calls and context record the call made
\* to _generate_answer.
ProcessQuery(idx, docs, request, generated) ==
    LET found == WeightedSearch(idx, docs, request.query, request.top_k,
                                request.threshold)
        retrieved_docs == found.results
    IN  IF found.raised
        THEN [raised |-> TRUE,
              encoded |-> found.encoded, searched |-> found.searched,
              retrieved |-> <<>>, generate_calls |-> 0, context |-> "",
              response |-> [answer |-> "", citations |-> <<>>, query |-> ""]]
        ELSE IF retrieved_docs = <<>>
        THEN [raised |-> FALSE,
              encoded |-> found.encoded, searched |-> found.searched,
              retrieved |-> <<>>, generate_calls |-> 0, context |-> "",
              response |-> [answer |-> NoAnswer, citations |-> <<>>,
                            query |-> request.query]]
        ELSE [raised |-> FALSE,
              encoded |-> found.encoded, searched |-> found.searched,
              retrieved |-> retrieved_docs, generate_calls |-> 1,
              context |-> BuildContext(retrieved_docs),
              response |-> [answer |-> generated,
                            citations |-> BuildCitations(retrieved_docs),
                            query |-> request.query]]

-----------------------------------------------------------------------------
(* vectorstore.py: the two persisted files *)

Absent == [state |-> "absent"]

\* a file whose write did not complete
Corrupt == [state |-> "corrupt"]

\* faiss.write_index(self.index, path)
WriteIndex(idx) ==
    [state |-> "ok", kind |-> "IndexFlatIP", ntotal |-> Len(idx), xb |-> idx]

\* faiss.read_index(path)
ReadIndex(file) == SubSeq(file.xb, 1, file.ntotal)

\* pickle.dump(self.documents, f)
PickleDump(docs) == [state |-> "ok", objects |-> docs]

\* pickle.load(f)
PickleLoad(file) == file.objects

\* _load_or_create_index that never finds the persisted files
LoadOrCreateIndexFresh(index_file, docs_file) ==
    [raised |-> FALSE, index |-> <<>>, documents |-> <<>>]

\* _load_or_create_index on the two files
LoadOrCreateIndex(index_file, docs_file) ==
    IF index_file.state = "absent"
    THEN [raised |-> FALSE, index |-> <<>>, documents |-> <<>>]
    ELSE IF index_file.state = "ok" /\ docs_file.state = "ok"
    THEN [raised |-> FALSE, index |-> ReadIndex(index_file),
          documents |-> PickleLoad(docs_file)]
    ELSE [raised |-> TRUE, index |-> <<>>, documents |-> <<>>]

-----------------------------------------------------------------------------
(* vectorstore.py: add_documents, local part *)

\* lines 42-44: a chunk without an embedding gets one from the model
EmbedChunk(chunk) ==
    IF chunk.embedding = <<>>
    THEN [chunk EXCEPT !.embedding = Encode(chunk.content)]
    ELSE chunk

\* the chunks as the loop of lines 41-45 leaves them
Embedded(chunks) == [i \in 1..Len(chunks) |-> EmbedChunk(chunks[i])]

\* lines 48-49: the normalized rows handed to index.add
EmbeddingsMatrix(chunks) ==
    [i \in 1..Len(chunks) |-> NormalizeL2(chunks[i].embedding)]

\* get_stats
GetStats(idx, docs) ==
    [total_documents  |-> Len(docs),
     index_size       |-> Len(idx),
     source_breakdown |->
        [s \in {docs[i].metadata.source_system : i \in 1..Len(docs)} |->
            Cardinality({i \in 1..Len(docs) : docs[i].metadata.source_system = s})]]

-----------------------------------------------------------------------------
(* Inputs *)

\* the handlers of server.py that insert into the store
Handlers == {"upload_document", "build_index"}

Threads == Handlers \cup {"query_documents"}

\* contents of uploaded files, as sequences of paragraphs
Contents == {<<>>, <<"a@b.co">>, <<"py", "a@b.co">>}

UploadSources == {"github"}

\* the files under data_sources/, by source directory
DataFiles ==
    [hr  |-> <<[path |-> "hr/cv.md", content |-> <<"a@b.co">>]>>,
     ats |-> <<[path |-> "ats/job.txt", content |-> <<"a@b.co">>]>>]

\* config['data_sources']['github']['api_enabled'], by default
GithubApiEnabled == FALSE

Queries == {"py?", "db?"}

\* request thresholds: below every score faiss reports, 0.0, and the default 0.7
Thresholds == {-1000, 0, 7}

Requests ==
    [query : Queries, top_k : 0..MaxK, threshold : Thresholds]

-----------------------------------------------------------------------------
(* State *)

NoBatch == <<>>

\* no operation has completed since the current one began
Running(t) == [op |-> t, raised |-> FALSE, at |-> "running"]

Init ==
    /\ index = <<>>
    /\ documents = <<>>
    /\ disk_index = Absent
    /\ disk_docs = Absent
    /\ boot = "up"
    /\ pc = [t \in Threads |-> "idle"]
    /\ batch = [t \in Handlers |-> NoBatch]
    /\ dirs = <<>>
    /\ last = [op |-> "load", raised |-> FALSE, at |-> "created"]
    /\ saved = [index |-> Absent, docs |-> Absent]
    /\ allOk = TRUE

AllIdle == \A t \in Threads : pc[t] = "idle"

\* the operation that completed last ended as described
Ended(op, raised, place) ==
    /\ "at" \in DOMAIN last
    /\ last.op = op
    /\ last.raised = raised
    /\ last.at = place

\* the chunks _process_source_directory collects from the files ok of a directory
RECURSIVE DirectoryChunks(_, _, _)
DirectoryChunks(files, source_system, ok) ==
    IF files = <<>> THEN <<>>
    ELSE LET n == Len(files)
             rest == DirectoryChunks(SubSeq(files, 1, n - 1), source_system, ok)
         IN  IF n \in ok
             THEN rest \o FileChunks(files[n].content, files[n].path, source_system)
             ELSE rest

RECURSIVE ChunksAhead(_)
ChunksAhead(ds) ==
    IF ds = <<>> THEN 0
    ELSE (IF Head(ds) \in DOMAIN DataFiles
          THEN Len(DirectoryChunks(DataFiles[Head(ds)], Head(ds),
                                   1..Len(DataFiles[Head(ds)])))
          ELSE 0) + ChunksAhead(Tail(ds))

\* the model stops inserting when the store would pass MaxDocs documents
Room(n) ==
    LET inflight(t) == IF pc[t] = "add" THEN Len(batch[t]) ELSE 0
    IN  Max(Len(index), Len(documents)) + inflight("upload_document")
            + inflight("build_index") + ChunksAhead(dirs) + n <= MaxDocs

\* the handler t ends with an exception raised at the given place
Raise(t, place) ==
    /\ pc' = [pc EXCEPT ![t] = "idle"]
    /\ batch' = [batch EXCEPT ![t] = NoBatch]
    /\ dirs' = IF t = "build_index" THEN <<>> ELSE dirs
    /\ last' = [op |-> t, raised |-> TRUE, at |-> place]
    /\ allOk' = FALSE

\* add_documents returns to the handler t
Return(t) ==
    /\ batch' = [batch EXCEPT ![t] = NoBatch]
    /\ IF t = "build_index"
       THEN /\ pc' = [pc EXCEPT ![t] = "next_dir"]
            /\ last' = [op |-> "add_documents", raised |-> FALSE, at |-> "done"]
       ELSE /\ pc' = [pc EXCEPT ![t] = "idle"]
            /\ last' = [op |-> t, raised |-> FALSE, at |-> "done"]
    /\ UNCHANGED <<dirs, allOk>>

-----------------------------------------------------------------------------
(* server.py: upload_document -> process_uploaded_file -> add_documents *)

\* lines 84-88: a file that is not .txt, .md or .json is refused
UploadRefused(serial, filename) ==
    /\ boot = "up"
    /\ pc["upload_document"] = "idle"
    /\ serial => AllIdle
    /\ filename = "up.pdf"
    /\ last' = [op |-> "upload_document", raised |-> TRUE, at |-> "filename"]
    /\ UNCHANGED <<index, documents, disk_index, disk_docs, boot, pc, batch, dirs,
                   saved, allOk>>

\* the file splits into no chunk: add_documents returns without saving
UploadEmpty(serial, content, filename, source_system) ==
    /\ boot = "up"
    /\ pc["upload_document"] = "idle"
    /\ serial => AllIdle
    /\ filename = "up.txt"
    /\ UploadChunks(content, filename, source_system) = <<>>
    /\ last' = [op |-> "upload_document", raised |-> FALSE, at |-> "empty"]
    /\ UNCHANGED <<index, documents, disk_index, disk_docs, boot, pc, batch, dirs,
                   saved, allOk>>

\* the chunks are embedded and add_documents reaches line 51
UploadDocument(serial, content, filename, source_system) ==
    LET chunks == UploadChunks(content, filename, source_system)
    IN  /\ boot = "up"
        /\ pc["upload_document"] = "idle"
        /\ serial => AllIdle
        /\ filename = "up.txt"
        /\ chunks # <<>>
        /\ Room(Len(chunks))
        /\ pc' = [pc EXCEPT !["upload_document"] = "add"]
        /\ batch' = [batch EXCEPT !["upload_document"] = Embedded(chunks)]
        /\ last' = Running("upload_document")
        /\ UNCHANGED <<index, documents, disk_index, disk_docs, boot, dirs,
                       saved, allOk>>

\* self.embedding_model.encode raises on one of the chunks
UploadEmbedFails(serial, content, filename, source_system) ==
    /\ boot = "up"
    /\ pc["upload_document"] = "idle"
    /\ serial => AllIdle
    /\ filename = "up.txt"
    /\ UploadChunks(content, filename, source_system) # <<>>
    /\ Raise("upload_document", "encode")
    /\ UNCHANGED <<index, documents, disk_index, disk_docs, boot, saved>>

-----------------------------------------------------------------------------
(* server.py: build_index -> process_data_sources *)

BuildIndexBegin(serial) ==
    /\ boot = "up"
    /\ pc["build_index"] = "idle"
    /\ serial => AllIdle
    /\ Room(ChunksAhead(<<"hr", "github", "ats">>))
    /\ pc' = [pc EXCEPT !["build_index"] = "next_dir"]
    /\ dirs' = <<"hr", "github", "ats">>
    /\ last' = Running("build_index")
    /\ UNCHANGED <<index, documents, disk_index, disk_docs, boot, batch,
                   saved, allOk>>

\* line 32: the GitHub API is not enabled
BuildSkipGithub ==
    /\ pc["build_index"] = "next_dir"
    /\ dirs # <<>>
    /\ Head(dirs) = "github"
    /\ ~GithubApiEnabled
    /\ dirs' = Tail(dirs)
    /\ UNCHANGED <<index, documents, disk_index, disk_docs, boot, pc, batch, last,
                   saved, allOk>>

\* lines 32-33 with api_enabled configured true: _process_github_api fetches
\* the profile and calls add_documents, which reaches line 51
BuildGithub(api_enabled) ==
    LET chunks == ConvertGithubProfileToChunks(GithubProfile)
    IN  /\ pc["build_index"] = "next_dir"
        /\ dirs # <<>>
        /\ Head(dirs) = "github"
        /\ api_enabled
        /\ chunks # <<>>
        /\ Room(Len(chunks))
        /\ dirs' = Tail(dirs)
        /\ pc' = [pc EXCEPT !["build_index"] = "add"]
        /\ batch' = [batch EXCEPT !["build_index"] = Embedded(chunks)]
        /\ last' = Running("build_index")
        /\ UNCHANGED <<index, documents, disk_index, disk_docs, boot, saved,
                       allOk>>

\* the fetch raises and _process_github_api catches it (lines 95-96)
BuildGithubFails(api_enabled) ==
    /\ pc["build_index"] = "next_dir"
    /\ dirs # <<>>
    /\ Head(dirs) = "github"
    /\ api_enabled
    /\ dirs' = Tail(dirs)
    /\ UNCHANGED <<index, documents, disk_index, disk_docs, boot, pc, batch, last,
                   saved, allOk>>

\* _process_source_directory when every processed file yields no chunk (the
\* files in ok are read, the others fail in _process_file and yield [])
BuildDirectoryEmpty(ok) ==
    /\ pc["build_index"] = "next_dir"
    /\ dirs # <<>>
    /\ Head(dirs) \in DOMAIN DataFiles
    /\ DirectoryChunks(DataFiles[Head(dirs)], Head(dirs), ok) = <<>>
    /\ dirs' = Tail(dirs)
    /\ UNCHANGED <<index, documents, disk_index, disk_docs, boot, pc, batch, last,
                   saved, allOk>>

\* _process_source_directory calls add_documents, which reaches line 51
BuildDirectory(ok) ==
    LET chunks == DirectoryChunks(DataFiles[Head(dirs)], Head(dirs), ok)
    IN  /\ pc["build_index"] = "next_dir"
        /\ dirs # <<>>
        /\ Head(dirs) \in DOMAIN DataFiles
        /\ chunks # <<>>
        /\ dirs' = Tail(dirs)
        /\ pc' = [pc EXCEPT !["build_index"] = "add"]
        /\ batch' = [batch EXCEPT !["build_index"] = Embedded(chunks)]
        /\ last' = Running("build_index")
        /\ UNCHANGED <<index, documents, disk_index, disk_docs, boot, saved,
                       allOk>>

\* the same call, with encode raising on one of the chunks: nothing between
\* line 43 of vectorstore.py and build_index catches it, so the directories
\* not yet processed (recorded in last.left) are dropped
BuildEmbedFails(ok) ==
    /\ pc["build_index"] = "next_dir"
    /\ dirs # <<>>
    /\ Head(dirs) \in DOMAIN DataFiles
    /\ DirectoryChunks(DataFiles[Head(dirs)], Head(dirs), ok) # <<>>
    /\ pc' = [pc EXCEPT !["build_index"] = "idle"]
    /\ batch' = [batch EXCEPT !["build_index"] = NoBatch]
    /\ dirs' = <<>>
    /\ last' = [op |-> "build_index", raised |-> TRUE, at |-> "encode",
                left |-> Tail(dirs)]
    /\ allOk' = FALSE
    /\ UNCHANGED <<index, documents, disk_index, disk_docs, boot, saved>>

\* lines 115-119: every directory is done
BuildIndexReturn ==
    /\ pc["build_index"] = "next_dir"
    /\ dirs = <<>>
    /\ pc' = [pc EXCEPT !["build_index"] = "idle"]
    /\ last' = [op |-> "build_index", raised |-> FALSE, at |-> "done",
                stats |-> GetStats(index, documents)]
    /\ UNCHANGED <<index, documents, disk_index, disk_docs, boot, batch, dirs,
                   saved, allOk>>

-----------------------------------------------------------------------------
(* vectorstore.py: add_documents lines 51-53 and _save_index, by thread t *)

\* line 51
IndexAdd(t) ==
    /\ pc[t] = "add"
    /\ index' = index \o EmbeddingsMatrix(batch[t])
    /\ pc' = [pc EXCEPT ![t] = "extend"]
    /\ UNCHANGED <<documents, disk_index, disk_docs, boot, batch, dirs, last,
                   saved, allOk>>

\* line 51 adds the rows and the call raises before line 52
IndexAddFailsAfterAdding(t) ==
    /\ pc[t] = "add"
    /\ index' = index \o EmbeddingsMatrix(batch[t])
    /\ Raise(t, "index.add")
    /\ UNCHANGED <<documents, disk_index, disk_docs, boot, saved>>

\* lines 48-51 raise (rows of unequal length, or not of the index's dimension)
IndexAddFails(t) ==
    /\ pc[t] = "add"
    /\ Raise(t, "index.add")
    /\ UNCHANGED <<index, documents, disk_index, disk_docs, boot, saved>>

\* line 52 putting the batch in front of the list
DocumentsExtendAtFront(t) ==
    /\ pc[t] = "extend"
    /\ documents' = batch[t] \o documents
    /\ pc' = [pc EXCEPT ![t] = "save_index"]
    /\ UNCHANGED <<index, disk_index, disk_docs, boot, batch, dirs, last, saved,
                   allOk>>

\* line 52
DocumentsExtend(t) ==
    /\ pc[t] = "extend"
    /\ documents' = documents \o batch[t]
    /\ pc' = [pc EXCEPT ![t] = "save_index"]
    /\ UNCHANGED <<index, disk_index, disk_docs, boot, batch, dirs, last, saved,
                   allOk>>

\* line 88
SaveIndexFile(t) ==
    /\ pc[t] = "save_index"
    /\ disk_index' = WriteIndex(index)
    /\ pc' = [pc EXCEPT ![t] = "save_docs"]
    /\ UNCHANGED <<index, documents, disk_docs, boot, batch, dirs, last, saved,
                   allOk>>

\* line 88 raises: before the file was opened for writing, or part way
SaveIndexFails(t, opened) ==
    /\ pc[t] = "save_index"
    /\ disk_index' = IF opened THEN Corrupt ELSE disk_index
    /\ Raise(t, "write_index")
    /\ UNCHANGED <<index, documents, disk_docs, boot, saved>>

\* lines 89-90
SaveDocsFile(t) ==
    /\ pc[t] = "save_docs"
    /\ disk_docs' = PickleDump(documents)
    /\ saved' = [index |-> disk_index, docs |-> PickleDump(documents)]
    /\ Return(t)
    /\ UNCHANGED <<index, documents, disk_index, boot>>

\* line 89 raises (file untouched), or line 90 raises (file opened with 'wb')
SaveDocsFails(t, opened) ==
    /\ pc[t] = "save_docs"
    /\ disk_docs' = IF opened THEN Corrupt ELSE disk_docs
    /\ Raise(t, "pickle.dump")
    /\ UNCHANGED <<index, documents, disk_index, boot, saved>>

-----------------------------------------------------------------------------
(* server.py: query_documents -> process_query *)

\* line 67: process_query runs on the store as it is now
Query(serial, request, generated) ==
    /\ boot = "up"
    /\ pc["query_documents"] = "idle"
    /\ serial => AllIdle
    /\ pc' = [pc EXCEPT !["query_documents"] = "respond"]
    /\ last' = [op      |-> "query_documents",
                request |-> request,
                ntotal  |-> Len(index),
                ndocs   |-> Len(documents),
                call    |-> ProcessQuery(index, documents, request, generated)]
    /\ UNCHANGED <<index, documents, disk_index, disk_docs, boot, batch, dirs,
                   saved, allOk>>

\* the response (or the HTTP 500 of line 69) has been sent
QueryRespond ==
    /\ pc["query_documents"] = "respond"
    /\ pc' = [pc EXCEPT !["query_documents"] = "idle"]
    /\ last' = [op |-> "query_documents", raised |-> FALSE, at |-> "sent"]
    /\ UNCHANGED <<index, documents, disk_index, disk_docs, boot, batch, dirs,
                   saved, allOk>>

-----------------------------------------------------------------------------
(* The process ends (at any statement) and a new one constructs the store *)

Restart ==
    LET loaded == LoadOrCreateIndex(disk_index, disk_docs)
    IN  /\ index' = loaded.index
        /\ documents' = loaded.documents
        /\ boot' = IF loaded.raised THEN "fatal" ELSE "up"
        /\ pc' = [t \in Threads |-> "idle"]
        /\ batch' = [t \in Handlers |-> NoBatch]
        /\ dirs' = <<>>
        /\ last' = [op |-> "load", raised |-> loaded.raised, at |-> "loaded"]
        /\ allOk' = (allOk /\ \A t \in Handlers : pc[t] = "idle")
        /\ UNCHANGED <<disk_index, disk_docs, saved>>

-----------------------------------------------------------------------------
(* Specifications *)

Insert(serial) ==
    \/ UploadRefused(serial, "up.pdf")
    \/ \E c \in Contents, s \in UploadSources : UploadEmpty(serial, c, "up.txt", s)
    \/ \E c \in Contents, s \in UploadSources : UploadDocument(serial, c, "up.txt", s)
    \/ \E c \in Contents, s \in UploadSources : UploadEmbedFails(serial, c, "up.txt", s)
    \/ BuildIndexBegin(serial)
    \/ BuildSkipGithub
    \/ \E ok \in SUBSET {1} : BuildDirectoryEmpty(ok)
    \/ \E ok \in SUBSET {1} : BuildDirectory(ok)
    \/ \E ok \in SUBSET {1} : BuildEmbedFails(ok)
    \/ BuildIndexReturn
    \/ \E t \in Handlers : IndexAdd(t)
    \/ \E t \in Handlers : DocumentsExtend(t)
    \/ \E t \in Handlers : SaveIndexFile(t)
    \/ \E t \in Handlers : SaveDocsFile(t)

Fail ==
    \/ \E t \in Handlers : IndexAddFails(t)
    \/ \E t \in Handlers, opened \in BOOLEAN : SaveIndexFails(t, opened)
    \/ \E t \in Handlers, opened \in BOOLEAN : SaveDocsFails(t, opened)

Ask(serial) ==
    \/ \E r \in Requests, a \in Answers : Query(serial, r, a)
    \/ QueryRespond

\* one store, one process, one request at a time
NextRun == Insert(TRUE) \/ Fail \/ Ask(TRUE)

SpecRun == Init /\ [][NextRun]_vars

\* one request at a time, and the process may be restarted
Next == Insert(TRUE) \/ Fail \/ Ask(TRUE) \/ Restart

Spec == Init /\ [][Next]_vars

\* the service as wired: the handlers run on different threads
NextConc == Insert(FALSE) \/ Ask(FALSE)

SpecConc == Init /\ [][NextConc]_vars

\* the source_system form field of an upload: a configured source that masks
\* PII, and the default "ats"
IngestSources == {"hr", "ats"}

\* uploaded contents, among them one in which no PII is found
IngestContents == Contents \cup {<<"py">>}

\* ingestion alone, through the three routes, with the GitHub API enabled
NextIngest ==
    \/ \E c \in IngestContents, s \in IngestSources : UploadEmpty(TRUE, c, "up.txt", s)
    \/ \E c \in IngestContents, s \in IngestSources : UploadDocument(TRUE, c, "up.txt", s)
    \/ BuildIndexBegin(TRUE)
    \/ BuildGithub(TRUE)
    \/ BuildGithubFails(TRUE)
    \/ \E ok \in SUBSET {1} : BuildDirectoryEmpty(ok)
    \/ \E ok \in SUBSET {1} : BuildDirectory(ok)
    \/ BuildIndexReturn
    \/ \E t \in Handlers : IndexAdd(t)
    \/ \E t \in Handlers : DocumentsExtend(t)
    \/ \E t \in Handlers : SaveIndexFile(t)
    \/ \E t \in Handlers : SaveDocsFile(t)

SpecIngest == Init /\ [][NextIngest]_vars

-----------------------------------------------------------------------------
(* query_service.py: _build_citations called on any list of retrieved chunks *)

Text50 == "abcdefghijabcdefghijabcdefghijabcdefghijabcdefghij"

Text150 == Text50 \o Text50 \o Text50

Text200 == Text150 \o Text50

\* chunk contents below, at and above the limit of 200 characters
CitedContents == {Text150, Text200, Text200 \o "!", Text200 \o Text50}

CitedMetadata ==
    [source_system |-> "github", classification |-> "PUBLIC", weight |-> 5,
     file_path |-> "up.txt#chunk_0", pii_masked |-> FALSE]

\* a retrieved chunk as weighted_search returns it, as similarity_search
\* returns it, and a chunk with no score
CitedDocs ==
    {[content |-> c, metadata |-> CitedMetadata, score |-> 7, weighted_score |-> 35] :
        c \in CitedContents}
    \cup {[content |-> c, metadata |-> CitedMetadata, score |-> 7] : c \in CitedContents}
    \cup {[content |-> c, metadata |-> CitedMetadata] : c \in CitedContents}

\* the lists of at most MaxCited chunks
CitedLists == UNION {[1..n -> CitedDocs] : n \in 0..MaxCited}

\* the service is up and _build_citations is called with some list
InitCitations ==
    /\ index = <<>>
    /\ documents = <<>>
    /\ disk_index = Absent
    /\ disk_docs = Absent
    /\ boot = "up"
    /\ pc = [t \in Threads |-> "idle"]
    /\ batch = [t \in Handlers |-> NoBatch]
    /\ dirs = <<>>
    /\ \E docs \in CitedLists :
          last = [op |-> "_build_citations", raised |-> FALSE, at |-> "called",
                  docs |-> docs]
    /\ saved = [index |-> Absent, docs |-> Absent]
    /\ allOk = TRUE

\* lines 102-116
BuildCitationsReturn ==
    /\ Ended("_build_citations", FALSE, "called")
    /\ last' = [op |-> "_build_citations", raised |-> FALSE, at |-> "returned",
                docs |-> last.docs, citations |-> BuildCitations(last.docs)]
    /\ UNCHANGED <<index, documents, disk_index, disk_docs, boot, pc, batch, dirs,
                   saved, allOk>>

NextCitations == BuildCitationsReturn

SpecCitations == InitCitations /\ [][NextCitations]_vars

-----------------------------------------------------------------------------
(* Properties *)

\* thread t is inside add_documents, past the embedding loop
InAddDocuments(t) == pc[t] \in {"add", "extend", "save_index", "save_docs"}

NoCallInProgress == \A t \in Handlers : ~InAddDocuments(t)

\* _save_index raised in the call that completed last
SaveFailed ==
    \E t \in Handlers : Ended(t, TRUE, "write_index") \/ Ended(t, TRUE, "pickle.dump")

\* the state is the one a new process loaded from the two files
Loaded == Ended("load", FALSE, "loaded")

\* process_query has just run on the store as it is in this state
Answered == "call" \in DOMAIN last

\* C1: whenever no add_documents call is in progress (each call so far has
\* returned or raised, while embedding, adding or saving), the documents list
\* is as long as the index has vectors, and get_stats reports equal counts.
C1_LengthsAgree ==
    /\ NoCallInProgress => Len(documents) = Len(index)
    /\ "stats" \in DOMAIN last => last.stats.total_documents = last.stats.index_size

\* a call whose save failed has raised, after an earlier call succeeded
C1_Witness ==
    /\ Ended("upload_document", TRUE, "pickle.dump")
    /\ Len(documents) >= 2
    /\ saved.docs # Absent

\* C2: a store constructed from the persisted files holds an index with as
\* many vectors as the loaded document sequence has documents.
C2_ReloadedCountsAgree == Loaded => Len(index) = Len(documents)

\* C3: when _save_index has failed, both files still hold what the last
\* successful save wrote (nothing, if there was none).
C3_FailedSaveKeepsFiles ==
    SaveFailed => disk_index = saved.index /\ disk_docs = saved.docs

\* C4: as long as every add_documents call has succeeded, a store loaded from
\* the two files answers every similarity_search and weighted_search exactly
\* as the store in memory does.
C4_RoundTrip ==
    (allOk /\ NoCallInProgress /\ boot = "up") =>
        LET loaded == LoadOrCreateIndex(disk_index, disk_docs)
        IN  /\ ~loaded.raised
            /\ \A r \in Requests :
                  /\ SimilaritySearch(loaded.index, loaded.documents,
                                      r.query, r.top_k, r.threshold)
                        = SimilaritySearch(index, documents,
                                           r.query, r.top_k, r.threshold)
                  /\ WeightedSearch(loaded.index, loaded.documents,
                                    r.query, r.top_k, r.threshold)
                        = WeightedSearch(index, documents,
                                         r.query, r.top_k, r.threshold)

\* a reloaded store that holds documents and finds some of them
C4_Witness ==
    /\ Loaded
    /\ allOk
    /\ Len(documents) >= 2
    /\ \E r \in Requests :
          Len(WeightedSearch(index, documents, r.query, r.top_k,
                             r.threshold).results) = 2

\* C5: no query runs on a store whose index and documents list differ in
\* length (a store between line 51 and line 52 of another thread's
\* add_documents), and no add_documents call reaches line 51 on such a store.
C5_HandlersSerialized ==
    /\ Answered => last.ntotal = last.ndocs
    /\ \A t \in Handlers : pc[t] = "add" => Len(index) = Len(documents)

\* C6: every result of similarity_search, for the query and threshold of the
\* request just answered and every k, has a score of at least the threshold.
C6_ScoresReachThreshold ==
    Answered =>
        \A k \in 0..(2 * MaxK) :
            LET found == SimilaritySearch(index, documents, last.request.query, k,
                                          last.request.threshold)
            IN  \A i \in 1..Len(found.results) :
                    found.results[i].score >= last.request.threshold

\* the search kept a hit and dropped another one for its score
C6_Witness ==
    /\ Answered
    /\ last.request.threshold = 7
    /\ Len(index) >= 2
    /\ Len(SimilaritySearch(index, documents, last.request.query, 2 * MaxK,
                            last.request.threshold).results) = 1

C8_EmptyStoreFindsNothing ==
    (Answered /\ disk_index = Absent /\ index = <<>> /\ documents = <<>>) =>
        /\ ~last.call.raised
        /\ last.call.retrieved = <<>>
        /\ ~last.call.encoded
        /\ ~last.call.searched
        /\ \A k \in 0..(2 * MaxK) :
              SimilaritySearch(index, documents, last.request.query, k,
                               last.request.threshold)
                 = [raised |-> FALSE, results |-> <<>>, encoded |-> FALSE,
                    searched |-> FALSE]

\* the fresh store was asked for MaxK results at the lowest threshold
C8_Witness ==
    /\ Answered
    /\ disk_index = Absent /\ index = <<>> /\ documents = <<>>
    /\ last.request.top_k = MaxK
    /\ last.request.threshold = -1000

\* C9: when weighted_search returns nothing, process_query answers with the
\* fixed sentence, no citation and the request's query, and does not call
\* _generate_answer; when it returns a result, _generate_answer is called once.
C9_GenerateOnlyWithResults ==
    (Answered /\ ~last.call.raised) =>
        LET found == WeightedSearch(index, documents, last.request.query,
                                    last.request.top_k, last.request.threshold)
        IN  /\ found.results = <<>> =>
                /\ last.call.generate_calls = 0
                /\ last.call.response =
                      [answer |-> "I couldn't find relevant information to answer your query.",
                       citations |-> <<>>,
                       query |-> last.request.query]
            /\ found.results # <<>> => last.call.generate_calls = 1

\* a store that holds documents found none of them relevant
C9_Witness ==
    /\ Answered
    /\ ~last.call.raised
    /\ Len(index) >= 2
    /\ last.request.top_k >= 1
    /\ last.call.generate_calls = 0

\* C10: the context handed to _generate_answer is the parts
\* "[<classification>] From <source_system>: <content>" of the chunks
\* weighted_search returned, in their order, joined by blank lines; these are
\* at most top_k chunks, each a stored document with a score of at least the
\* threshold; and the citations are one per chunk, in the same order.
C10_ContextIsRetrieved ==
    (Answered /\ ~last.call.raised /\ last.call.generate_calls > 0) =>
        LET found == WeightedSearch(index, documents, last.request.query,
                                    last.request.top_k,
                                    last.request.threshold).results
            part(i) == "[" \o found[i].metadata.classification \o "] From "
                          \o found[i].metadata.source_system \o ": "
                          \o found[i].content
            cites == last.call.response.citations
        IN  /\ last.call.context = Join([i \in 1..Len(found) |-> part(i)], "\n\n")
            /\ Len(found) <= last.request.top_k
            /\ \A i \in 1..Len(found) :
                  /\ found[i].score >= last.request.threshold
                  /\ \E p \in 1..Len(documents) :
                        /\ documents[p].content = found[i].content
                        /\ documents[p].metadata = found[i].metadata
            /\ Len(cites) = Len(found)
            /\ \A i \in 1..Len(found) :
                  /\ cites[i].file_path = found[i].metadata.file_path
                  /\ cites[i].source_system = found[i].metadata.source_system
                  /\ cites[i].classification = found[i].metadata.classification

\* top_k chunks went into the context and a stored chunk that reaches the
\* threshold was left out
C10_Witness ==
    /\ Answered
    /\ ~last.call.raised
    /\ last.request.top_k = 1
    /\ last.request.threshold = 7
    /\ Len(last.call.retrieved) = 1
    /\ Len(SimilaritySearch(index, documents, last.request.query, 2,
                            last.request.threshold).results) = 2

\* C11: _build_citations returns one citation per chunk, in order; a content
\* of at most 200 characters is cited unchanged, a longer one as its first 200
\* characters followed by "..."; the cited score is the chunk's weighted_score
\* when it has one and otherwise its score.
C11_CitationContentAndScore ==
    Ended("_build_citations", FALSE, "returned") =>
        LET docs == last.docs
            cites == last.citations
        IN  /\ Len(cites) = Len(docs)
            /\ \A i \in 1..Len(docs) :
                  /\ Len(docs[i].content) <= 200 => cites[i].content = docs[i].content
                  /\ Len(docs[i].content) > 200 =>
                        /\ Len(cites[i].content) = 203
                        /\ SubSeq(cites[i].content, 1, 200)
                              = SubSeq(docs[i].content, 1, 200)
                        /\ SubSeq(cites[i].content, 201, 203) = "..."
                  /\ "weighted_score" \in DOMAIN docs[i] =>
                        cites[i].score = docs[i].weighted_score
                  /\ ("weighted_score" \notin DOMAIN docs[i] /\ "score" \in DOMAIN docs[i]) =>
                        cites[i].score = docs[i].score

\* a chunk of 201 characters with only a raw score and a chunk of 200
\* characters with a weighted score were cited
C11_Witness ==
    /\ Ended("_build_citations", FALSE, "returned")
    /\ Len(last.docs) = 2
    /\ Len(last.docs[1].content) = 201
    /\ "weighted_score" \notin DOMAIN last.docs[1]
    /\ Len(last.citations[1].content) = 203
    /\ Len(last.docs[2].content) = 200
    /\ "weighted_score" \in DOMAIN last.docs[2]

\* the chunk is in the documents list
Stored(chunk) ==
    \E p \in 1..Len(documents) :
        /\ documents[p].content = chunk.content
        /\ documents[p].metadata = chunk.metadata

\* C12: when the embedding of one chunk has failed during process_data_sources,
\* every chunk of every source directory that comes after the failing one is
\* in the store once the ingestion has ended.
C12_FailureIsolated ==
    Ended("build_index", TRUE, "encode") =>
        \A i \in 1..Len(last.left) :
            last.left[i] \in DOMAIN DataFiles =>
                LET d == last.left[i]
                    chunks == DirectoryChunks(DataFiles[d], d, 1..Len(DataFiles[d]))
                IN  \A j \in 1..Len(chunks) : Stored(chunks[j])

\* C13: every stored chunk carries the classification and weight configured
\* for its source_system and the source's pii_mask flag as pii_masked, or
\* "PUBLIC", 1.0 and false when the source is not configured.
C13_MetadataFromSourceTable ==
    \A p \in 1..Len(documents) :
        LET m == documents[p].metadata
        IN  IF m.source_system \in DOMAIN SourceConfig
            THEN /\ m.classification = SourceConfig[m.source_system].classification
                 /\ m.weight = SourceConfig[m.source_system].weight
                 /\ m.pii_masked = SourceConfig[m.source_system].pii_mask
            ELSE /\ m.classification = "PUBLIC"
                 /\ m.weight = 10
                 /\ m.pii_masked = FALSE

\* the store holds a chunk of a masking source in which no PII was found and
\* a chunk of a source that is not configured
C13_Witness ==
    /\ \E p \in 1..Len(documents) :
          /\ documents[p].metadata.source_system = "hr"
          /\ documents[p].content = "py"
          /\ documents[p].metadata.pii_masked
    /\ \E p \in 1..Len(documents) :
          documents[p].metadata.source_system = "ats"

\* C14: the results of similarity_search, for the query and threshold of the
\* request just answered and every k, are the chunks at the positions i with
\* 0 <= i < len(documents) that index.search returned with a score of at
\* least the threshold, in the order of index.search, and number at most k.
C14_OutOfRangeHitsDiscarded ==
    Answered =>
        \A k \in 1..(2 * MaxK) :
            LET q == last.request.query
                threshold == last.request.threshold
                found == SimilaritySearch(index, documents, q, k, threshold)
                hits == IndexSearch(index, NormalizeL2(Encode(q)), k)
                InRange(h) == /\ h.score >= threshold
                              /\ 0 <= h.idx
                              /\ h.idx < Len(documents)
                kept == SelectSeq(hits, InRange)
            IN  ~found.raised =>
                    /\ Len(found.results) <= k
                    /\ Len(found.results) = Len(kept)
                    /\ \A i \in 1..Len(kept) :
                          /\ found.results[i].content = documents[kept[i].idx + 1].content
                          /\ found.results[i].metadata = documents[kept[i].idx + 1].metadata
                          /\ found.results[i].score = kept[i].score

\* add_documents has just returned normally to its caller
AddDocumentsReturned ==
    \/ Ended("upload_document", FALSE, "done")
    \/ Ended("upload_document", FALSE, "empty")
    \/ Ended("add_documents", FALSE, "done")

\* C15: whenever add_documents has returned normally, for any batch, the
\* empty one included, both files exist and hold the index and the documents
\* list as they are in memory.
C15_SavedAfterEveryAdd ==
    AddDocumentsReturned =>
        /\ disk_index = WriteIndex(index)
        /\ disk_docs = PickleDump(documents)

\* every stored document's normalized embedding is the vector of the index
\* at the document's position
PositionAligned ==
    \A i \in 1..Len(documents) :
        /\ i <= Len(index)
        /\ index[i] = NormalizeL2(documents[i].embedding)

\* a step leaves the documents list and the index as they are or appends to
\* them, and what it appends to the list is the batch of the call in progress
AppendsBatch ==
    /\ Len(index') >= Len(index)
    /\ SubSeq(index', 1, Len(index)) = index
    /\ Len(documents') >= Len(documents)
    /\ SubSeq(documents', 1, Len(documents)) = documents
    /\ documents' # documents =>
          \E t \in Handlers :
              /\ InAddDocuments(t)
              /\ SubSeq(documents', Len(documents) + 1, Len(documents')) = batch[t]

\* C16: over any sequence of add_documents calls the store only grows by
\* appending: each call leaves the documents stored before it, and their
\* positions, unchanged and puts its batch, in order, behind them; and the
\* document at position i is the one whose normalized embedding is the i-th
\* vector of the index.
C16_AppendOnlyAligned == [][AppendsBatch]_vars /\ []PositionAligned

\* two calls have inserted their batches, of different vectors, one after
\* the other
C16_Witness ==
    /\ NoCallInProgress
    /\ Len(documents) = 2
    /\ documents[1].metadata.source_system = "hr"
    /\ documents[2].metadata.source_system = "ats"
    /\ index[1] # index[2]

====
